---- MODULE Spec2Model ----
(***************************************************************************)
(* Model of src/xymaker.py: the XYMaker class, which joins a feature CSV   *)
(* table and a target CSV table on the identifier in field 0 and writes    *)
(* two row-aligned tables, X (features) and Y (labels).                    *)
(*                                                                         *)
(* A table is a sequence of rows, a row a sequence of text fields.         *)
(* Python's 0-based indexes are kept in `column`; TLA+ sequences are       *)
(* 1-based, so Python row[i] is PyIndex(row, i).                           *)
(***************************************************************************)
EXTENDS Integers, Sequences, FiniteSets, TLC

VARIABLES
    features_file,      \* the file at self.features_file: [status, rows]
    label_file,         \* the file at self.label_file: [status, rows]
    writable,           \* which of the output paths "x", "y" can be opened for writing
    column,             \* self.column
    features_data,      \* self.features_data
    labels_data,        \* self.labels_data
    aligned_x_data,     \* self.aligned_x_data
    aligned_y_data,     \* self.aligned_y_data
    x_out,              \* the file at self.output_x_filename: [exists, rows]
    y_out,              \* the file at self.output_y_filename: [exists, rows]
    labels_dict,        \* the labels_dict local of the last call of process
    result,             \* what the last call of process did: [err, ret, steps, saved]
    history             \* one entry per call of process on this instance

vars == << features_file, label_file, writable, column, features_data, labels_data,
           aligned_x_data, aligned_y_data, x_out, y_out, labels_dict, result, history >>

-----------------------------------------------------------------------------
(* Bounds and input domains *)

MaxDataRows == 2    \* data rows of an input table (the header comes on top)
MaxRuns == 2        \* calls of process on one instance
EnvDataRows == 1    \* data rows of a table when the files change between calls

\* A blank line is the row <<>>. The second target header looks like a data row.
FeatureHeaders == { <<>>, <<"ID", "f0">> }
FeatureRows    == { <<>>, <<"a", "1">>, <<"b", "2">> }
TargetHeaders  == { <<>>, <<"ID", "c1", "c2">>, <<"a", "w">> }
TargetRows     == { <<>>, <<"a", "x">>, <<"a", "y", "z">>, <<"b", "y", "z">> }
Columns        == -1 .. 2

SeqsUpTo(R, n) == UNION { [1..k -> R] : k \in 0..n }

\* The empty table, or a header followed by at most n data rows.
Tables(H, R, n) == { <<>> } \cup { <<h>> \o d : h \in H, d \in SeqsUpTo(R, n) }

\* A readable file holds a table; a missing or unreadable file yields no row; a file
\* that stops being parseable lets the reader see its first rows and then fails.
Files(H, R, n) ==
    [status : {"ok"}, rows : Tables(H, R, n)]
      \cup [status : {"missing", "denied"}, rows : {<<>>}]
      \cup [status : {"garbled"}, rows : Tables(H, R, 0)]

NoFile == [exists |-> FALSE, rows |-> <<>>]
OldFile == [exists |-> TRUE, rows |-> << <<"old">> >>]
EmptyDict == [k \in {} |-> ""]
NoResult == [err |-> "none", ret |-> <<0, 0>>, steps |-> <<>>, saved |-> {}]

-----------------------------------------------------------------------------
(* Python helpers *)

\* row[i] of a Python list: negative indexes count from the end.
PyInRange(row, i) == IF i >= 0 THEN i < Len(row) ELSE -i <= Len(row)
PyIndex(row, i) == IF i >= 0 THEN row[i + 1] ELSE row[Len(row) + i + 1]

\* data[1:]
Rest(data) == IF Len(data) <= 1 THEN <<>> ELSE SubSeq(data, 2, Len(data))

-----------------------------------------------------------------------------
(* XYMaker._read_csv *)

\* A failure of any kind is logged and swallowed, and the rows read so far are dropped.
read_csv_keeps_rows(file) == file.rows

read_csv(file) == IF file.status = "ok" THEN file.rows ELSE <<>>

-----------------------------------------------------------------------------
(* XYMaker.process: the two guards *)

empty_input_features_only(fdata, ldata) == fdata = <<>>

empty_input(fdata, ldata) == fdata = <<>> \/ ldata = <<>>

column_too_large_off_by_one(ldata, col) == col > Len(ldata[1])

column_too_large(ldata, col) == col >= Len(ldata[1])

-----------------------------------------------------------------------------
(* XYMaker._create_labels_dict *)

Put(d, k, v) == [i \in DOMAIN d \cup {k} |-> IF i = k THEN v ELSE d[i]]

\* the loop's test: `if row and len(row) > self.column`
row_has_label(row, col) == row # <<>> /\ Len(row) > col

RECURSIVE labels_loop_first_wins(_, _, _)
labels_loop_first_wins(rows, col, d) ==
    IF rows = <<>> THEN d
    ELSE LET row == Head(rows) IN
         labels_loop_first_wins(Tail(rows), col,
             IF row_has_label(row, col) /\ PyInRange(row, col) /\ row[1] \notin DOMAIN d
             THEN Put(d, row[1], PyIndex(row, col)) ELSE d)

RECURSIVE labels_loop(_, _, _)
labels_loop(rows, col, d) ==
    IF rows = <<>> THEN d
    ELSE LET row == Head(rows) IN
         labels_loop(Tail(rows), col,
             IF row_has_label(row, col) /\ PyInRange(row, col)
             THEN Put(d, row[1], PyIndex(row, col)) ELSE d)

create_labels_dict(ldata, col) == labels_loop(Rest(ldata), col, EmptyDict)

\* row[self.column] raises IndexError when a negative column reaches before the row's start
create_labels_dict_raises(ldata, col) ==
    \E i \in 2..Len(ldata) : row_has_label(ldata[i], col) /\ ~PyInRange(ldata[i], col)

-----------------------------------------------------------------------------
(* XYMaker._align_data *)

RECURSIVE align_loop(_, _, _)
align_loop(rows, d, acc) ==
    IF rows = <<>> THEN acc
    ELSE LET row == Head(rows) IN
         align_loop(Tail(rows), d,
             IF row = <<>> THEN acc
             ELSE IF row[1] \in DOMAIN d
                  THEN [acc EXCEPT !.x = Append(@, row),
                                   !.y = Append(@, <<d[row[1]]>>),
                                   !.matched = @ + 1]
                  ELSE [acc EXCEPT !.unmatched = @ + 1])

\* appends to the accumulators it is handed; the counters start at 0
align_data(fdata, d, ax, ay) ==
    align_loop(Rest(fdata), d, [x |-> ax, y |-> ay, matched |-> 0, unmatched |-> 0])

-----------------------------------------------------------------------------
(* XYMaker._save_csv *)

\* open(filename, 'w') fails with PermissionError: logged, the file is left as it was.
\* (A failure in the middle of writerows is not modelled.)
save_csv(file, data, can_write) ==
    IF can_write THEN [exists |-> TRUE, rows |-> data] ELSE file

-----------------------------------------------------------------------------
(* XYMaker.process *)

Outcome(err, ret, steps, saved) ==
    [err |-> err, ret |-> ret, steps |-> steps, saved |-> saved]

Finish(out) ==
    /\ result' = out
    /\ history' = Append(history, [result |-> out,
                                   x_before |-> x_out, y_before |-> y_out,
                                   x |-> x_out', y |-> y_out'])

Process ==
    /\ Len(history) < MaxRuns
    /\ features_data' = read_csv(features_file)
    /\ labels_data' = read_csv(label_file)
    /\ UNCHANGED << features_file, label_file, writable, column >>
    /\ IF empty_input(features_data', labels_data')
       THEN /\ UNCHANGED << aligned_x_data, aligned_y_data, x_out, y_out, labels_dict >>
            /\ Finish(Outcome("EmptyInput", <<0, 0>>, <<"read">>, {}))
       ELSE IF labels_data' = <<>>
       THEN \* self.labels_data[0] raises IndexError out of process
            /\ UNCHANGED << aligned_x_data, aligned_y_data, x_out, y_out, labels_dict >>
            /\ Finish(Outcome("IndexError", <<>>, <<"read", "validate">>, {}))
       ELSE IF column_too_large(labels_data', column)
       THEN /\ UNCHANGED << aligned_x_data, aligned_y_data, x_out, y_out, labels_dict >>
            /\ Finish(Outcome("InvalidColumn", <<0, 0>>, <<"read", "validate">>, {}))
       ELSE IF ~PyInRange(labels_data'[1], column) \/ features_data' = <<>>
       THEN \* labels_data[0][self.column] or features_data[0] raises IndexError
            /\ UNCHANGED << aligned_x_data, aligned_y_data, x_out, y_out, labels_dict >>
            /\ Finish(Outcome("IndexError", <<>>, <<"read", "validate">>, {}))
       ELSE LET label_column_name == PyIndex(labels_data'[1], column)
                x1 == Append(aligned_x_data, features_data'[1])
                y1 == Append(aligned_y_data, <<label_column_name>>)
            IN  IF create_labels_dict_raises(labels_data', column)
                THEN /\ aligned_x_data' = x1
                     /\ aligned_y_data' = y1
                     /\ UNCHANGED << x_out, y_out, labels_dict >>
                     /\ Finish(Outcome("IndexError", <<>>,
                                       <<"read", "validate", "header", "index">>, {}))
                ELSE LET d == create_labels_dict(labels_data', column)
                         a == align_data(features_data', d, x1, y1)
                     IN  /\ labels_dict' = d
                         /\ aligned_x_data' = a.x
                         /\ aligned_y_data' = a.y
                         /\ x_out' = save_csv(x_out, a.x, "x" \in writable)
                         /\ y_out' = save_csv(y_out, a.y, "y" \in writable)
                         /\ Finish(Outcome("none", <<a.matched, a.unmatched>>,
                                <<"read", "validate", "header", "index", "align",
                                  "save_x", "save_y">>, writable))

-----------------------------------------------------------------------------
(* The instance after XYMaker.__init__, with the files it will find *)

InitWith(n) ==
    /\ features_file \in Files(FeatureHeaders, FeatureRows, n)
    /\ label_file \in Files(TargetHeaders, TargetRows, n)
    /\ writable \in SUBSET {"x", "y"}
    /\ column \in Columns
    /\ features_data = <<>>
    /\ labels_data = <<>>
    /\ aligned_x_data = <<>>
    /\ aligned_y_data = <<>>
    /\ \E old \in { NoFile, OldFile } : x_out = old /\ y_out = old
    /\ labels_dict = EmptyDict
    /\ result = NoResult
    /\ history = <<>>

Init == InitWith(MaxDataRows)

Next == Process

Spec == Init /\ [][Next]_vars

-----------------------------------------------------------------------------
(* The same instance when other programs rewrite the input files between calls *)

RewriteFeatures ==
    /\ Len(history) < MaxRuns
    /\ features_file' \in [status : {"ok"},
                            rows : Tables(FeatureHeaders, FeatureRows, EnvDataRows)]
    /\ features_file' # features_file
    /\ UNCHANGED << label_file, writable, column, features_data, labels_data,
                    aligned_x_data, aligned_y_data, x_out, y_out, labels_dict,
                    result, history >>

RewriteLabels ==
    /\ Len(history) < MaxRuns
    /\ label_file' \in [status : {"ok"},
                         rows : Tables(TargetHeaders, TargetRows, EnvDataRows)]
    /\ label_file' # label_file
    /\ UNCHANGED << features_file, writable, column, features_data, labels_data,
                    aligned_x_data, aligned_y_data, x_out, y_out, labels_dict,
                    result, history >>

\* both output paths writable and not yet there
InitEnv == InitWith(EnvDataRows) /\ writable = {"x", "y"} /\ x_out = NoFile

NextEnv == Process \/ RewriteFeatures \/ RewriteLabels

SpecEnv == InitEnv /\ [][NextEnv]_vars

-----------------------------------------------------------------------------
(* Vocabulary of the claims *)

Ran == history # <<>>
Last == history[Len(history)]

\* the last call went through to the end and both files were written
WroteOutputs == Ran /\ result.err = "none" /\ result.saved = {"x", "y"}

\* the last call left both output files as it found them
OutputsUntouched == x_out = Last.x_before /\ y_out = Last.y_before

\* the last call returned (0, 0) after `steps` and wrote nothing
AbortedWith(err, steps) ==
    /\ result.err = err
    /\ result.ret = <<0, 0>>
    /\ result.steps = steps
    /\ result.saved = {}
    /\ OutputsUntouched

\* the last call read two non-empty tables, the feature header is not a blank line,
\* and the column is one that main lets through and that the target header has
WellFormed ==
    /\ features_data # <<>>
    /\ labels_data # <<>>
    /\ features_data[1] # <<>>
    /\ 1 <= column
    /\ column < Len(labels_data[1])

X == x_out.rows
Y == y_out.rows

Max(S) == CHOOSE m \in S : \A n \in S : n <= m

\* indexes of the target data rows that carry a label at `col`
LabelledRows(ldata, col) ==
    { i \in 2..Len(ldata) : ldata[i] # <<>> /\ Len(ldata[i]) > col }

\* the feature data rows whose identifier is a key of d, in file order
IsMatch(d, row) == row # <<>> /\ row[1] \in DOMAIN d
RECURSIVE Matching(_, _)
Matching(rows, d) ==
    IF rows = <<>> THEN <<>>
    ELSE IF IsMatch(d, Head(rows)) THEN <<Head(rows)>> \o Matching(Tail(rows), d)
    ELSE Matching(Tail(rows), d)

\* the tables that hold the header of ldata and its data rows in another order
Reordered(ldata) ==
    LET n == Len(ldata) - 1
        Perms == { p \in [1..n -> 1..n] : \A i, j \in 1..n : p[i] = p[j] => i = j }
    IN  { [i \in 1..(n + 1) |-> IF i = 1 THEN ldata[1] ELSE ldata[p[i - 1] + 1]] :
          p \in Perms }

UniqueIds(ldata) ==
    /\ \A i \in 2..Len(ldata) : ldata[i] # <<>>
    /\ \A i, j \in 2..Len(ldata) : ldata[i][1] = ldata[j][1] => i = j

\* what a call on a new instance writes and returns for the tables it read
FreshRun(fdata, ldata, col) ==
    align_data(fdata, create_labels_dict(ldata, col),
               << fdata[1] >>, << << PyIndex(ldata[1], col) >> >>)

-----------------------------------------------------------------------------
(* C1 *)

\* C1: after any call of process that writes the outputs, X and Y have the same
\* number of rows and, for every row i after the first, Y's row i is the one field
\* that the label index holds for the identifier X[i][0].  (Stated for well-formed
\* inputs, where it already fails.)
C1_RowsDescribeSameIdentifier ==
    ( WroteOutputs /\ WellFormed ) =>
        /\ Len(X) = Len(Y)
        /\ \A i \in 2..Len(X) :
              /\ X[i] # <<>>
              /\ X[i][1] \in DOMAIN labels_dict
              /\ Y[i] = << labels_dict[X[i][1]] >>

-----------------------------------------------------------------------------
(* C2 *)

\* C2: for non-empty tables whose feature data rows are all non-empty, a completed
\* call returns (matched, unmatched) with #data rows of X = #data rows of Y =
\* matched, and matched + unmatched = #feature rows - 1.
C2_CountsMatchOutputs ==
    ( /\ WroteOutputs
      /\ WellFormed
      /\ \A i \in 2..Len(features_data) : features_data[i] # <<>> )
    =>  /\ Len(X) - 1 = result.ret[1]
        /\ Len(Y) - 1 = result.ret[1]
        /\ result.ret[1] + result.ret[2] = Len(features_data) - 1

-----------------------------------------------------------------------------
(* C3 *)

\* C3: the data rows of X are exactly the feature data rows whose identifier is a
\* key of the label index, in feature-file order, and putting the data rows of a
\* target table with unique identifiers in another order changes neither X, Y nor
\* the returned counts.  (Stated for well-formed inputs, where it already fails.)
C3_FeatureOrderPreserved ==
    ( WroteOutputs /\ WellFormed ) =>
        /\ Rest(X) = Matching(Rest(features_data), labels_dict)
        /\ UniqueIds(labels_data) =>
              \A other \in Reordered(labels_data) :
                  FreshRun(features_data, other, column)
                      = FreshRun(features_data, labels_data, column)

-----------------------------------------------------------------------------
(* C4 *)

\* C4 as written: a target table with no data row (header only, or nothing at all)
\* or a feature table with no row makes the call abort with the empty-input error
\* right after reading, and leaves both output files alone.  (Stated for a column
\* that main lets through and that the header, if there is one, has.)
C4_HeaderOnlyTargetAborts ==
    ( /\ Ran
      /\ Len(labels_data) <= 1 \/ features_data = <<>>
      /\ 1 <= column
      /\ labels_data # <<>> => column < Len(labels_data[1]) )
    => AbortedWith("EmptyInput", <<"read">>)

\* C4 as amended: a target table with no row at all (not even a header) or a
\* feature table with no row makes the call abort with the empty-input error right
\* after reading, before validation, indexing or alignment, and leaves both output
\* files alone.
C4_EmptyTableAborts ==
    ( Ran /\ (labels_data = <<>> \/ features_data = <<>>) )
    => AbortedWith("EmptyInput", <<"read">>)

\* an empty (but readable) target file next to a usable feature file and column,
\* with output files already there
C4_Witness ==
    /\ Ran
    /\ label_file = [status |-> "ok", rows |-> <<>>]
    /\ features_file.status = "ok"
    /\ Len(features_data) > 1
    /\ column = 1
    /\ x_out = OldFile
    /\ y_out = OldFile
    /\ result.err = "EmptyInput"

-----------------------------------------------------------------------------
(* C5 *)

\* C5 as written: whenever the column index is >= the number of fields of the
\* target table's header, the call aborts with the invalid-column error, returns
\* (0, 0) and writes neither file.
C5_LargeColumnIsInvalidColumn ==
    ( Ran /\ labels_data # <<>> /\ labels_data[1] # <<>>
          /\ column >= Len(labels_data[1]) )
    => AbortedWith("InvalidColumn", <<"read", "validate">>)

\* C5 as amended: whenever both tables were read non-empty and the column index is
\* >= the number of fields of the target table's header, the call aborts with the
\* invalid-column error, returns (0, 0) and writes neither file.
C5_LargeColumnAborts ==
    ( Ran /\ features_data # <<>> /\ labels_data # <<>>
          /\ column >= Len(labels_data[1]) )
    => AbortedWith("InvalidColumn", <<"read", "validate">>)

\* the column is exactly the header's field count, matching data is there, and
\* the output files exist
C5_Witness ==
    /\ Ran
    /\ column = 2
    /\ Len(labels_data) > 1
    /\ labels_data[1] = <<"a", "w">>
    /\ labels_data[2] = <<"a", "y", "z">>
    /\ Len(features_data) > 1
    /\ features_data[2] = <<"a", "1">>
    /\ writable = {"x", "y"}
    /\ x_out = OldFile
    /\ result.err = "InvalidColumn"

-----------------------------------------------------------------------------
(* C6 *)

\* C6: with column <= 0 the call writes nothing (it fails with the invalid-column
\* error), so a call that writes outputs has 0 < column < header field count.
C6_NonPositiveColumnRejected ==
    /\ ( Ran /\ column <= 0 )
       => ( result.err # "none" /\ result.saved = {} /\ OutputsUntouched )
    /\ WroteOutputs => ( 0 < column /\ column < Len(labels_data[1]) )

-----------------------------------------------------------------------------
(* C7 *)

\* C7: a read failure on either input stays inside the reader: that table is
\* empty, the call aborts through the empty-input check with (0, 0), and neither
\* output file is written.
C7_ReadFailureAborts ==
    ( Ran /\ (features_file.status # "ok" \/ label_file.status # "ok") )
    =>  /\ features_file.status # "ok" => features_data = <<>>
        /\ label_file.status # "ok" => labels_data = <<>>
        /\ AbortedWith("EmptyInput", <<"read">>)

\* the feature file broke off after its header; everything else would let the
\* call go through, and the output files exist
C7_Witness ==
    /\ Ran
    /\ features_file = [status |-> "garbled", rows |-> << <<"ID", "f0">> >>]
    /\ label_file.status = "ok"
    /\ Len(labels_data) > 1
    /\ labels_data[1] = <<"ID", "c1", "c2">>
    /\ column = 1
    /\ writable = {"x", "y"}
    /\ x_out = OldFile
    /\ result.err = "EmptyInput"

-----------------------------------------------------------------------------
(* C8 *)

\* C8: in every call that writes the outputs, row 0 of X is the feature table's
\* header row and row 0 of Y is the one-field row holding the target header's
\* field at the column index.  (Stated for well-formed inputs, where it already
\* fails.)
C8_HeadersCopied ==
    ( WroteOutputs /\ WellFormed ) =>
        /\ X[1] = features_data[1]
        /\ Y[1] = << PyIndex(labels_data[1], column) >>

-----------------------------------------------------------------------------
(* C9 *)

\* C9: the label index maps each identifier to row[column] of the last target
\* data row that starts with it and has more than `column` fields; rows with
\* fewer fields (empty rows too) add no entry and overwrite none, and the header
\* row adds none.
C9_LastLabelledRowWins ==
    ( Ran /\ result.err = "none" ) =>
        LET rows == LabelledRows(labels_data, column) IN
        /\ DOMAIN labels_dict = { labels_data[i][1] : i \in rows }
        /\ \A id \in DOMAIN labels_dict :
              LET last == Max({ i \in rows : labels_data[i][1] = id })
              IN  labels_dict[id] = PyIndex(labels_data[last], column)

\* two rows with the same identifier and different labels at the column
C9_Witness ==
    /\ Ran
    /\ result.err = "none"
    /\ column = 1
    /\ labels_data = << <<"a", "w">>, <<"a", "x">>, <<"a", "y", "z">> >>
    /\ labels_dict = [id \in {"a"} |-> "y"]

-----------------------------------------------------------------------------
(* C10 *)

\* C10: a second call of process on the same instance with the same input files
\* writes the X and Y of the first call and returns the same counts.  (Stated for
\* well-formed inputs, where it already fails.)
C10_SecondRunSameAsFirst ==
    ( /\ Len(history) = 2
      /\ WellFormed
      /\ history[1].result.err = "none"
      /\ history[1].result.saved = {"x", "y"} )
    =>  /\ history[2].x = history[1].x
        /\ history[2].y = history[1].y
        /\ history[2].result.ret = history[1].result.ret

====
